---- MODULE Spec2Model ----
(***************************************************************************)
(* Model of examples/windows-vm-setup/create-multiple-vms.py: the template *)
(* catalog, the request built by create_windows_vm, the LibGoClient        *)
(* operations as functions of the HTTP response they receive, and main()   *)
(* as a sequential state machine that is stepped at every network round    *)
(* trip.                                                                   *)
(*                                                                         *)
(* Conventions.  A Python dict is a TLA+ function with string domain, a    *)
(* Python list or tuple is a sequence, None is the string PyNone.  Sizes   *)
(* in bytes are kept in GiB units (the source writes n * 1024**3).  An     *)
(* uncaught Python exception ends the run with a traceback and exit code 1.*)
(***************************************************************************)
EXTENDS Integers, Sequences, FiniteSets, TLC

VARIABLES args, file, pc, i, configs, calls, attempted, output, slept,
          exitCode, crashed

vars == <<args, file, pc, i, configs, calls, attempted, output, slept,
          exitCode, crashed>>

\* ------------------------------------------------------------------ bounds
MaxBatch == 2
MaxCalls == 2

\* --------------------------------------------------------------- constants
PyNone == "<None>"
NoCrash == "none"
SleepSeconds == 2

\* ------------------------------------------------------------ VM_TEMPLATES
\* sizeBytes holds the number of GiB: the source's n * 1024 * 1024 * 1024
\* exceeds the integers TLC computes with, and the only arithmetic on it is
\* the division by 1024**3 for the printed "GB" lines.
VM_TEMPLATES ==
  ("windows-11-basic" :>
      [template |-> "windows-11",
       cpu |-> [count |-> 4, cores |-> 2, threads |-> 1, socket |-> 2],
       memory |-> [sizeBytes |-> 8],
       disk |-> [sizeBytes |-> 100, format |-> "qcow2", bus |-> "sata"]]) @@
  ("windows-11-developer" :>
      [template |-> "windows-11",
       cpu |-> [count |-> 8, cores |-> 4, threads |-> 1, socket |-> 2],
       memory |-> [sizeBytes |-> 16],
       disk |-> [sizeBytes |-> 250, format |-> "qcow2", bus |-> "virtio"]]) @@
  ("windows-server-web" :>
      [template |-> "windows-server-2022",
       cpu |-> [count |-> 4, cores |-> 2, threads |-> 1, socket |-> 2],
       memory |-> [sizeBytes |-> 8],
       disk |-> [sizeBytes |-> 80, format |-> "qcow2", bus |-> "virtio"]]) @@
  ("windows-server-database" :>
      [template |-> "windows-server-2022",
       cpu |-> [count |-> 8, cores |-> 4, threads |-> 1, socket |-> 2],
       memory |-> [sizeBytes |-> 32],
       disk |-> [sizeBytes |-> 500, format |-> "qcow2", bus |-> "virtio"]])

\* VM_TEMPLATES.keys(), in insertion order
TemplateKeys ==
  <<"windows-11-basic", "windows-11-developer",
    "windows-server-web", "windows-server-database">>

\* ------------------------------------------------------- HTTP round trips
\* What one round trip of requests.Session yields: either an exception
\* (timeout, DNS, connection refused) or a response with a status and a body.
FaultDescriptions == {"Connection refused"}
Statuses == {200, 201, 204, 404, 500}
EmptyBody == ""
ObjectBody == "{}"
ArrayBody == "[]"
\* The serialisation of <<FullVmRecord>> under "vms" (size_bytes in bytes).
VmsBody ==
  "{\"vms\": [{\"name\": \"vm1\", \"status\": \"running\", \"cpu\": {\"count\": 4}, \"memory\": {\"size_bytes\": 8589934592}, \"created_at\": \"2024-01-01T00:00:00Z\"}]}"
NoStatusVmsBody == "{\"vms\": [{\"name\": \"vm1\"}]}"
Bodies == {EmptyBody, ObjectBody, ArrayBody}
ListBodies == Bodies \cup {VmsBody, NoStatusVmsBody}

Fault(desc) == [fault |-> TRUE, desc |-> desc]
Http(status, text) == [fault |-> FALSE, status_code |-> status, text |-> text]

Faults == {Fault(d) : d \in FaultDescriptions}
Responses == Faults \cup {Http(s, b) : s \in Statuses, b \in Bodies}
ListResponses == Faults \cup {Http(s, b) : s \in Statuses, b \in ListBodies}

\* A VM record with every field main() prints for the list command
\* (size_bytes in GiB, like sizeBytes in VM_TEMPLATES).
FullVmRecord ==
  [name |-> "vm1", status |-> "running", cpu |-> [count |-> 4],
   memory |-> [size_bytes |-> 8], created_at |-> "2024-01-01T00:00:00Z"]

\* response.json(): the parsed body, or the ValueError it raises.
JsonDecodeError == "Expecting value: line 1 column 1 (char 0)"
ResponseJson(text) ==
  CASE text = ObjectBody -> [type |-> "dict", d |-> <<>>]
    [] text = ArrayBody -> [type |-> "list", d |-> <<>>]
    [] text = VmsBody -> [type |-> "dict", d |-> [vms |-> <<FullVmRecord>>]]
    [] text = NoStatusVmsBody ->
         [type |-> "dict", d |-> [vms |-> <<[name |-> "vm1"]>>]]
    [] OTHER -> [type |-> "raises", d |-> <<>>]

\* One printed line: what it says and the value formatted into it.
Line(kind, arg) == [line |-> kind, arg |-> arg]

\* ------------------------------------------------------------ LibGoClient
\* Each operation maps the outcome of its one round trip to the pair
\* (success, result) it returns.
check_health(resp) ==
  IF resp.fault THEN FALSE ELSE resp.status_code = 200

\* create_vm, start_vm, get_vm and create_snapshot return the parsed body on
\* their success status; response.json() is called inside the try block, so
\* a body that does not parse is caught by `except Exception` and returned
\* as {"error": str(e)}, like a transport fault.
create_vm(resp) ==
  IF resp.fault THEN <<FALSE, [error |-> resp.desc]>>
  ELSE IF resp.status_code = 201
       THEN IF ResponseJson(resp.text).type = "raises"
            THEN <<FALSE, [error |-> JsonDecodeError]>>
            ELSE <<TRUE, ResponseJson(resp.text)>>
       ELSE <<FALSE, [error |-> resp.text, status_code |-> resp.status_code]>>

start_vm(resp) ==
  IF resp.fault THEN <<FALSE, [error |-> resp.desc]>>
  ELSE IF resp.status_code = 200
       THEN IF ResponseJson(resp.text).type = "raises"
            THEN <<FALSE, [error |-> JsonDecodeError]>>
            ELSE <<TRUE, ResponseJson(resp.text)>>
       ELSE <<FALSE, [error |-> resp.text, status_code |-> resp.status_code]>>

get_vm(resp) ==
  IF resp.fault THEN <<FALSE, [error |-> resp.desc]>>
  ELSE IF resp.status_code = 200
       THEN IF ResponseJson(resp.text).type = "raises"
            THEN <<FALSE, [error |-> JsonDecodeError]>>
            ELSE <<TRUE, ResponseJson(resp.text)>>
       ELSE <<FALSE, [error |-> resp.text, status_code |-> resp.status_code]>>

create_snapshot(resp) ==
  IF resp.fault THEN <<FALSE, [error |-> resp.desc]>>
  ELSE IF resp.status_code = 201
       THEN IF ResponseJson(resp.text).type = "raises"
            THEN <<FALSE, [error |-> JsonDecodeError]>>
            ELSE <<TRUE, ResponseJson(resp.text)>>
       ELSE <<FALSE, [error |-> resp.text, status_code |-> resp.status_code]>>

list_vms(resp) ==
  IF resp.fault THEN <<FALSE, <<>>>>
  ELSE IF resp.status_code = 200
       THEN LET data == ResponseJson(resp.text) IN
            IF data.type = "dict"
            THEN <<TRUE, IF "vms" \in DOMAIN data.d THEN data.d.vms ELSE <<>>>>
            ELSE <<FALSE, <<>>>>
       ELSE <<FALSE, <<>>>>

delete_vm(resp) ==
  IF resp.fault THEN <<FALSE, [error |-> resp.desc]>>
  ELSE IF resp.status_code \in {200, 204}
       THEN <<TRUE, [message |-> "VM deleted successfully"]>>
       ELSE <<FALSE, [error |-> resp.text, status_code |-> resp.status_code]>>

\* What the client methods themselves print: check_health and list_vms
\* print the exception their try block caught (for list_vms a transport
\* fault, a 200 body that is not JSON, or a 200 body that is no object);
\* the other methods print nothing.
ListNotDictError == "'list' object has no attribute 'get'"

check_health_prints(resp) ==
  IF resp.fault THEN <<Line("Health check failed", resp.desc)>> ELSE <<>>

list_vms_prints(resp) ==
  IF resp.fault THEN <<Line("List VMs failed", resp.desc)>>
  ELSE IF resp.status_code # 200 THEN <<>>
  ELSE IF ResponseJson(resp.text).type = "raises"
       THEN <<Line("List VMs failed", JsonDecodeError)>>
  ELSE IF ResponseJson(resp.text).type = "list"
       THEN <<Line("List VMs failed", ListNotDictError)>>
  ELSE <<>>

ClientPrints(op, resp) ==
  CASE op = "check_health" -> check_health_prints(resp)
    [] op = "list_vms" -> list_vms_prints(resp)
    [] OTHER -> <<>>

ClientOps ==
  {"create_vm", "start_vm", "get_vm", "list_vms", "create_snapshot", "delete_vm"}

ClientResult(op, resp) ==
  CASE op = "create_vm" -> create_vm(resp)
    [] op = "start_vm" -> start_vm(resp)
    [] op = "get_vm" -> get_vm(resp)
    [] op = "list_vms" -> list_vms(resp)
    [] op = "create_snapshot" -> create_snapshot(resp)
    [] op = "delete_vm" -> delete_vm(resp)
    [] op = "check_health" -> <<check_health(resp), <<>>>>

\* One entry of the history of client calls: the operation, the batch item
\* it was issued for (0 outside a batch), its argument, the round trip's
\* outcome and the pair the client returned.
Call(op, item, arg, resp) ==
  [op |-> op, item |-> item, arg |-> arg, resp |-> resp,
   ok |-> ClientResult(op, resp)[1], result |-> ClientResult(op, resp)[2]]

\* ------------------------------------------------------ create_windows_vm
\* `x or y` on the description: None and "" are the falsy values.
Truthy(s) == s # PyNone /\ s # ""

\* {**a, **b}: keys of b override keys of a.
DictMerge(a, b) ==
  [k \in DOMAIN a \cup DOMAIN b |-> IF k \in DOMAIN b THEN b[k] ELSE a[k]]

\* vm_config testing the description against None only, so that an empty
\* description is sent as it is.
vm_config_NoneOnly(name, template_type, description) ==
  DictMerge(
    DictMerge(
      [name |-> name,
       description |-> IF description # PyNone THEN description
                       ELSE "Windows VM - " \o template_type],
      VM_TEMPLATES[template_type]),
    [network |-> [type |-> "network", source |-> "default", model |-> "virtio"],
     cloudInit |-> [enabled |-> FALSE]])

\* The dict literal of create_windows_vm, entries applied left to right.
vm_config(name, template_type, description) ==
  DictMerge(
    DictMerge(
      [name |-> name,
       description |-> IF Truthy(description) THEN description
                       ELSE "Windows VM - " \o template_type],
      VM_TEMPLATES[template_type]),
    [network |-> [type |-> "network", source |-> "default", model |-> "virtio"],
     cloudInit |-> [enabled |-> FALSE]])

\* The branch of create_windows_vm taken when the template is no key of
\* VM_TEMPLATES: two lines are printed and False is returned.
RejectUnknown(template_type) ==
  [ret |-> FALSE, calls |-> <<>>, crash |-> NoCrash,
   out |-> <<Line("Unknown template type", template_type),
             Line("Available templates", TemplateKeys)>>]

\* CreateKnown sending the request a second time when the first attempt
\* failed.
CreateKnown_Retry(name, template_type, description, resp, item) ==
  LET template == VM_TEMPLATES[template_type]
      call == Call("create_vm", item,
                   vm_config(name, template_type, description), resp)
      banner == <<Line("Creating VM", name),
                  Line("Template", template_type),
                  Line("CPU cores", template.cpu.count),
                  Line("Memory GB", template.memory.sizeBytes),
                  Line("Disk GB", template.disk.sizeBytes)>>
  IN  IF call.ok
      THEN IF call.result.type = "dict"
           THEN [ret |-> TRUE, calls |-> <<call>>, crash |-> NoCrash,
                 out |-> banner \o
                         <<Line("VM created successfully", name),
                           Line("UUID", PyNone),
                           Line("Status", PyNone)>>]
           ELSE [ret |-> FALSE, calls |-> <<call>>,
                 crash |-> "AttributeError", out |-> banner]
      ELSE [ret |-> FALSE, calls |-> <<call, call>>, crash |-> NoCrash,
            out |-> banner \o <<Line("Failed to create VM", call.result)>>]

\* The rest of create_windows_vm: the request is built and sent once, and
\* the outcome `resp` of that round trip decides what is printed and returned.
CreateKnown(name, template_type, description, resp, item) ==
  LET template == VM_TEMPLATES[template_type]
      call == Call("create_vm", item,
                   vm_config(name, template_type, description), resp)
      banner == <<Line("Creating VM", name),
                  Line("Template", template_type),
                  Line("CPU cores", template.cpu.count),
                  Line("Memory GB", template.memory.sizeBytes),
                  Line("Disk GB", template.disk.sizeBytes)>>
  IN  IF call.ok
      THEN IF call.result.type = "dict"
           THEN [ret |-> TRUE, calls |-> <<call>>, crash |-> NoCrash,
                 out |-> banner \o
                         <<Line("VM created successfully", name),
                           Line("UUID", PyNone),
                           Line("Status", PyNone)>>]
           ELSE \* result.get('vm', {}) on a list
                [ret |-> FALSE, calls |-> <<call>>,
                 crash |-> "AttributeError", out |-> banner]
      ELSE [ret |-> FALSE, calls |-> <<call>>, crash |-> NoCrash,
            out |-> banner \o <<Line("Failed to create VM", call.result)>>]

\* create_windows_vm looking the template up without regard to letter case.
Lower(template_type) ==
  IF template_type = "Windows-11-Basic" THEN "windows-11-basic"
  ELSE template_type

create_windows_vm_AnyCase(name, template_type, description, resp, item) ==
  IF Lower(template_type) \notin DOMAIN VM_TEMPLATES
  THEN RejectUnknown(template_type)
  ELSE CreateKnown(name, Lower(template_type), description, resp, item)

\* create_windows_vm for batch item `item` (0 for the create command), given
\* the outcome `resp` of the round trip it makes, if it makes one: the value
\* returned, the client calls issued, the lines printed and the exception
\* raised, if any.
create_windows_vm(name, template_type, description, resp, item) ==
  IF template_type \notin DOMAIN VM_TEMPLATES
  THEN RejectUnknown(template_type)
  ELSE CreateKnown(name, template_type, description, resp, item)

\* ------------------------------------------------------------------- inputs
\* JSON values of the batch config file.
JsonObject(d) == [type |-> "dict", d |-> d]
JsonString == [type |-> "str", d |-> <<>>]

\* The elements a config file's array is drawn from: well-formed items with
\* and without a description, items naming no catalog key (one differing
\* only in letter case), items lacking a required key, and a non-object.
ItemShapes ==
  {JsonObject([name |-> "vm1", template |-> "windows-11-basic"]),
   JsonObject([name |-> "vm2", template |-> "windows-server-web",
               description |-> "Web tier"]),
   JsonObject([name |-> "vm1", template |-> "Windows-11-Basic",
               description |-> ""]),
   JsonObject([name |-> "vm2", template |-> "not-a-template",
               description |-> PyNone]),
   JsonObject([template |-> "windows-11-basic"]),
   JsonObject([name |-> "vm1"]),
   JsonString}

RECURSIVE SeqsUpTo(_, _)
SeqsUpTo(S, n) ==
  IF n = 0 THEN {<<>>}
  ELSE SeqsUpTo(S, n - 1) \cup
       {Append(q, x) : q \in {r \in SeqsUpTo(S, n - 1) : Len(r) = n - 1}, x \in S}

\* What open() and json.load() make of the config file: the file is missing,
\* is not JSON, or holds a number, an object (iterated by key) or an array.
FileContents ==
  {[state |-> "missing", items |-> <<>>],
   [state |-> "invalid", items |-> <<>>],
   [state |-> "number", items |-> <<>>],
   [state |-> "dict", items |-> <<JsonString>>]} \cup
  {[state |-> "list", items |-> q] : q \in SeqsUpTo(ItemShapes, MaxBatch)}

NoFile == [state |-> "unused", items |-> <<>>]

\* The literal list of main()'s default batch, each tuple as the item it
\* is unpacked into.
DefaultVms ==
  <<JsonObject([name |-> "win11-workstation", template |-> "windows-11-basic",
                description |-> "Windows 11 Workstation"]),
    JsonObject([name |-> "win11-dev", template |-> "windows-11-developer",
                description |-> "Windows 11 Development"]),
    JsonObject([name |-> "winserver-web", template |-> "windows-server-web",
                description |-> "Windows Server - Web Server"]),
    JsonObject([name |-> "winserver-db", template |-> "windows-server-database",
                description |-> "Windows Server - Database"])>>

\* The namespaces parse_args() can return (usage errors end the process
\* before main() does anything and are not runs of the model).
Names == {"vm1"}
Descriptions == {PyNone, "", "Dev box"}
ArgsSet ==
  {[command |-> "create", name |-> n, template |-> t, description |-> d,
    start |-> st] :
      n \in Names, t \in DOMAIN VM_TEMPLATES, d \in Descriptions,
      st \in BOOLEAN} \cup
  {[command |-> "create-multiple", config_file |-> f] :
      f \in {PyNone, "", "vms.json"}} \cup
  {[command |-> c, name |-> n] : c \in {"delete", "start"}, n \in Names} \cup
  {[command |-> "snapshot", vm_name |-> n, snapshot_name |-> "snap1",
    description |-> d, include_memory |-> m] :
      n \in Names, d \in {PyNone, "nightly"}, m \in BOOLEAN} \cup
  {[command |-> "list"], [command |-> PyNone]}

HealthResponses == Faults \cup {Http(s, EmptyBody) : s \in Statuses}

\* ---------------------------------------------------------------- main()
Init ==
  /\ args \in ArgsSet
  /\ file \in IF args.command = "create-multiple" /\ Truthy(args.config_file)
              THEN FileContents ELSE {NoFile}
  /\ pc = "health"
  /\ i = 0
  /\ configs = <<>>
  /\ calls = <<>>
  /\ attempted = <<>>
  /\ output = <<>>
  /\ slept = 0
  /\ exitCode = -1
  /\ crashed = NoCrash

\* Falling off the end of main(): exit code 0.
Return ==
  /\ pc' = "done"
  /\ exitCode' = 0
  /\ crashed' = NoCrash

\* An exception nobody catches: traceback, exit code 1.
Raise(exc) ==
  /\ pc' = "done"
  /\ exitCode' = 1
  /\ crashed' = exc

\* Main_check_health without the sys.exit(1): the error is printed and the
\* command is executed all the same.
Main_check_health_NoGate ==
  /\ pc = "health"
  /\ \E resp \in HealthResponses :
       LET call == Call("check_health", 0, "", resp) IN
       /\ calls' = Append(calls, call)
       /\ output' = IF call.ok THEN output
                    ELSE output \o check_health_prints(resp) \o
                         <<Line("Error: API is not responding", "")>>
  /\ pc' = "command"
  /\ UNCHANGED <<args, file, i, configs, attempted, slept, exitCode, crashed>>

\* client.check_health() and the gate on it (sys.exit(1)).
Main_check_health ==
  /\ pc = "health"
  /\ \E resp \in HealthResponses :
       LET call == Call("check_health", 0, "", resp) IN
       /\ calls' = Append(calls, call)
       /\ IF call.ok
          THEN /\ pc' = "command"
               /\ output' = output
               /\ UNCHANGED <<exitCode, crashed>>
          ELSE /\ pc' = "done"
               /\ exitCode' = 1
               /\ crashed' = NoCrash
               /\ output' = output \o check_health_prints(resp) \o
                    <<Line("Error: API is not responding", "")>>
  /\ UNCHANGED <<args, file, i, configs, attempted, slept>>

\* Main_create starting the VM whenever --start is given, whether or not
\* the creation succeeded.
Main_create_StartAlways ==
  /\ pc = "command"
  /\ args.command = "create"
  /\ \E resp \in Responses :
       LET r == create_windows_vm(args.name, args.template, args.description,
                                  resp, 0) IN
       /\ calls' = calls \o r.calls
       /\ attempted' = Append(attempted, 0)
       /\ IF r.crash # NoCrash
          THEN /\ Raise(r.crash)
               /\ output' = output \o r.out
          ELSE IF args.start
          THEN /\ pc' = "create_start"
               /\ output' = output \o r.out \o <<Line("Starting VM", args.name)>>
               /\ UNCHANGED <<exitCode, crashed>>
          ELSE /\ Return
               /\ output' = output \o r.out
  /\ UNCHANGED <<args, file, i, configs, slept>>

\* command == 'create', up to the optional start.
Main_create ==
  /\ pc = "command"
  /\ args.command = "create"
  /\ \E resp \in Responses :
       LET r == create_windows_vm(args.name, args.template, args.description,
                                  resp, 0) IN
       /\ calls' = calls \o r.calls
       /\ attempted' = Append(attempted, 0)
       /\ IF r.crash # NoCrash
          THEN /\ Raise(r.crash)
               /\ output' = output \o r.out
          ELSE IF r.ret /\ args.start
          THEN /\ pc' = "create_start"
               /\ output' = output \o r.out \o <<Line("Starting VM", args.name)>>
               /\ UNCHANGED <<exitCode, crashed>>
          ELSE /\ Return
               /\ output' = output \o r.out
  /\ UNCHANGED <<args, file, i, configs, slept>>

\* The start that follows a successful create with --start.
Main_create_start ==
  /\ pc = "create_start"
  /\ \E resp \in Responses :
       LET call == Call("start_vm", 0, args.name, resp) IN
       /\ calls' = Append(calls, call)
       /\ output' = Append(output,
            IF call.ok THEN Line("VM started successfully", args.name)
            ELSE Line("Failed to start VM", call.result))
  /\ Return
  /\ UNCHANGED <<args, file, i, configs, attempted, slept>>

\* command == 'create-multiple': the batch is loaded from the config file
\* or taken from the default list, and the loop is entered.
Main_create_multiple ==
  /\ pc = "command"
  /\ args.command = "create-multiple"
  /\ IF Truthy(args.config_file)
     THEN CASE file.state = "missing" ->
                 Raise("FileNotFoundError") /\ UNCHANGED <<configs, i>>
            [] file.state = "invalid" ->
                 Raise("JSONDecodeError") /\ UNCHANGED <<configs, i>>
            [] file.state = "number" ->
                 Raise("TypeError") /\ UNCHANGED <<configs, i>>
            [] OTHER ->
                 /\ configs' = file.items
                 /\ IF file.items = <<>>
                    THEN Return /\ i' = i
                    ELSE /\ pc' = "batch"
                         /\ i' = 1
                         /\ UNCHANGED <<exitCode, crashed>>
     ELSE /\ configs' = DefaultVms
          /\ pc' = "batch"
          /\ i' = 1
          /\ UNCHANGED <<exitCode, crashed>>
  /\ UNCHANGED <<args, file, calls, attempted, output, slept>>

\* One iteration of the batch loop: the item's keys are read, the VM is
\* created, the loop sleeps, and the loop ends after the last item.
Main_batch_item ==
  /\ pc = "batch"
  /\ i \in 1..Len(configs)
  /\ LET config == configs[i] IN
     IF config.type # "dict"
     THEN Raise("TypeError") /\ UNCHANGED <<i, calls, attempted, output, slept>>
     ELSE IF "name" \notin DOMAIN config.d \/ "template" \notin DOMAIN config.d
     THEN Raise("KeyError") /\ UNCHANGED <<i, calls, attempted, output, slept>>
     ELSE \E resp \in Responses :
            LET r == create_windows_vm(
                       config.d.name, config.d.template,
                       IF "description" \in DOMAIN config.d
                       THEN config.d.description ELSE "",
                       resp, i) IN
            /\ calls' = calls \o r.calls
            /\ attempted' = Append(attempted, i)
            /\ output' = output \o r.out
            /\ IF r.crash # NoCrash
               THEN Raise(r.crash) /\ UNCHANGED <<i, slept>>
               ELSE /\ slept' = slept + SleepSeconds
                    /\ i' = i + 1
                    /\ IF i = Len(configs)
                       THEN Return
                       ELSE UNCHANGED <<pc, exitCode, crashed>>
  /\ UNCHANGED <<args, file, configs>>

\* The lines the list command prints for one VM record, reading
\* vm['name'], vm['status'], vm['cpu']['count'], vm['memory']['size_bytes']
\* and vm['created_at'] in that order and stopping at the first missing key.
VmLines(vm) ==
  IF "name" \notin DOMAIN vm THEN <<>>
  ELSE IF "status" \notin DOMAIN vm THEN <<Line("Name", vm.name)>>
  ELSE IF "cpu" \notin DOMAIN vm \/ "count" \notin DOMAIN vm.cpu
       THEN <<Line("Name", vm.name), Line("Status", vm.status)>>
  ELSE IF "memory" \notin DOMAIN vm \/ "size_bytes" \notin DOMAIN vm.memory
       THEN <<Line("Name", vm.name), Line("Status", vm.status),
              Line("CPU cores", vm.cpu.count)>>
  ELSE IF "created_at" \notin DOMAIN vm
       THEN <<Line("Name", vm.name), Line("Status", vm.status),
              Line("CPU cores", vm.cpu.count),
              Line("Memory GB", vm.memory.size_bytes)>>
  ELSE <<Line("Name", vm.name), Line("Status", vm.status),
         Line("CPU cores", vm.cpu.count),
         Line("Memory GB", vm.memory.size_bytes),
         Line("Created", vm.created_at)>>

VmPrintable(vm) == Len(VmLines(vm)) = 5

\* print("-" * 80)
Separator == Line("SEPARATOR", "")

\* The printing loop over vms[k..]: the five lines and the separator of
\* every complete record, up to and including the partial lines of the
\* first record a key is missing from.
RECURSIVE ListLines(_, _)
ListLines(vms, k) ==
  IF k > Len(vms) THEN <<>>
  ELSE IF VmPrintable(vms[k])
       THEN VmLines(vms[k]) \o <<Separator>> \o ListLines(vms, k + 1)
  ELSE VmLines(vms[k])

\* command == 'list'.
Main_list ==
  /\ pc = "command"
  /\ args.command = "list"
  /\ \E resp \in ListResponses :
       LET call == Call("list_vms", 0, "", resp)
           vms == call.result
           caught == list_vms_prints(resp)
       IN
       /\ calls' = Append(calls, call)
       /\ IF ~call.ok
          THEN /\ output' = output \o caught \o <<Line("Failed to list VMs", "")>>
               /\ Return
          ELSE IF vms = <<>>
          THEN /\ output' = Append(output, Line("No VMs found.", ""))
               /\ Return
          ELSE /\ output' = output \o
                            <<Line("Found VMs", Len(vms)), Separator>> \o
                            ListLines(vms, 1)
               /\ IF \A k \in 1..Len(vms) : VmPrintable(vms[k])
                  THEN Return
                  ELSE Raise("KeyError")
  /\ UNCHANGED <<args, file, i, configs, attempted, slept>>

\* command == 'delete'.
Main_delete ==
  /\ pc = "command"
  /\ args.command = "delete"
  /\ \E resp \in Responses :
       LET call == Call("delete_vm", 0, args.name, resp) IN
       /\ calls' = Append(calls, call)
       /\ output' = output \o
            <<Line("Deleting VM", args.name),
              IF call.ok THEN Line("VM deleted successfully", args.name)
              ELSE Line("Failed to delete VM", call.result)>>
  /\ Return
  /\ UNCHANGED <<args, file, i, configs, attempted, slept>>

\* command == 'start'.
Main_start ==
  /\ pc = "command"
  /\ args.command = "start"
  /\ \E resp \in Responses :
       LET call == Call("start_vm", 0, args.name, resp) IN
       /\ calls' = Append(calls, call)
       /\ output' = output \o
            <<Line("Starting VM", args.name),
              IF call.ok THEN Line("VM started successfully", args.name)
              ELSE Line("Failed to start VM", call.result)>>
  /\ Return
  /\ UNCHANGED <<args, file, i, configs, attempted, slept>>

\* command == 'snapshot'.
Main_snapshot ==
  /\ pc = "command"
  /\ args.command = "snapshot"
  /\ \E resp \in Responses :
       LET snapshot_config ==
             [name |-> args.snapshot_name,
              description |-> IF Truthy(args.description) THEN args.description
                              ELSE "Snapshot of " \o args.vm_name,
              include_memory |-> args.include_memory]
           call == Call("create_snapshot", 0, snapshot_config, resp)
       IN
       /\ calls' = Append(calls, call)
       /\ IF ~call.ok
          THEN /\ output' = output \o
                    <<Line("Creating snapshot for VM", args.vm_name),
                      Line("Failed to create snapshot", call.result)>>
               /\ Return
          ELSE IF call.result.type = "dict"
          THEN /\ output' = output \o
                    <<Line("Creating snapshot for VM", args.vm_name),
                      Line("Snapshot created successfully", args.snapshot_name),
                      Line("Name", PyNone),
                      Line("Created", PyNone)>>
               /\ Return
          ELSE /\ output' = Append(output,
                              Line("Creating snapshot for VM", args.vm_name))
               /\ Raise("AttributeError")
  /\ UNCHANGED <<args, file, i, configs, attempted, slept>>

\* No subcommand: parser.print_help().
Main_help ==
  /\ pc = "command"
  /\ args.command = PyNone
  /\ output' = Append(output, Line("usage", ""))
  /\ Return
  /\ UNCHANGED <<args, file, i, configs, calls, attempted, slept>>

Next ==
  \/ Main_check_health
  \/ Main_create
  \/ Main_create_start
  \/ Main_create_multiple
  \/ Main_batch_item
  \/ Main_list
  \/ Main_delete
  \/ Main_start
  \/ Main_snapshot
  \/ Main_help

Spec == Init /\ [][Next]_vars

\* --------------------------------------------- the client used on its own
\* LibGoClient driven directly: up to MaxCalls operations, each on any
\* outcome of its round trip.  get_vm is reachable only this way.
ClientInit ==
  /\ args = [command |-> PyNone]
  /\ file = NoFile
  /\ pc = "client"
  /\ i = 0
  /\ configs = <<>>
  /\ calls = <<>>
  /\ attempted = <<>>
  /\ output = <<>>
  /\ slept = 0
  /\ exitCode = -1
  /\ crashed = NoCrash

ClientCall(op, arg, resps) ==
  /\ \E resp \in resps :
       /\ calls' = Append(calls, Call(op, 0, arg, resp))
       /\ output' = output \o ClientPrints(op, resp)
  /\ UNCHANGED <<args, file, pc, i, configs, attempted, slept,
                 exitCode, crashed>>

Client_create_vm ==
  /\ pc = "client" /\ Len(calls) < MaxCalls
  /\ ClientCall("create_vm", vm_config("vm1", "windows-11-basic", ""), Responses)

Client_start_vm ==
  /\ pc = "client" /\ Len(calls) < MaxCalls
  /\ ClientCall("start_vm", "vm1", Responses)

Client_get_vm ==
  /\ pc = "client" /\ Len(calls) < MaxCalls
  /\ ClientCall("get_vm", "vm1", Responses)

Client_list_vms ==
  /\ pc = "client" /\ Len(calls) < MaxCalls
  /\ ClientCall("list_vms", "", ListResponses)

Client_create_snapshot ==
  /\ pc = "client" /\ Len(calls) < MaxCalls
  /\ ClientCall("create_snapshot",
                [name |-> "snap1", description |-> "", include_memory |-> FALSE],
                Responses)

Client_delete_vm ==
  /\ pc = "client" /\ Len(calls) < MaxCalls
  /\ ClientCall("delete_vm", "vm1", Responses)

ClientNext ==
  \/ Client_create_vm
  \/ Client_start_vm
  \/ Client_get_vm
  \/ Client_list_vms
  \/ Client_create_snapshot
  \/ Client_delete_vm

ClientSpec == ClientInit /\ [][ClientNext]_vars

\* ------------------------------------------------------ history operators
IsHealthCall(c) == c.op = "check_health"
HealthFailed == \E k \in 1..Len(calls) : IsHealthCall(calls[k]) /\ ~calls[k].ok
HealthPassed == \E k \in 1..Len(calls) : IsHealthCall(calls[k]) /\ calls[k].ok
VmCalls == SelectSeq(calls, LAMBDA c : ~IsHealthCall(c))
CallsOf(op) == {k \in 1..Len(calls) : calls[k].op = op}
NonSuccess2xx(resp) == ~resp.fault /\ resp.status_code \notin 200..299
Done == pc = "done"

\* ------------------------------------------------------------------ C1
\* C1: whenever the health probe meets a transport fault or a status other
\* than 200, check_health returns False, and once it has returned False the
\* run has issued no VM operation at all and is over, with exit code 1 and
\* the fatal "API is not responding" line as the last thing printed.
C1_HealthGate ==
  /\ \A k \in 1..Len(calls) :
       IsHealthCall(calls[k]) /\
       (calls[k].resp.fault \/ calls[k].resp.status_code # 200)
         => ~calls[k].ok
  /\ HealthFailed =>
       /\ VmCalls = <<>>
       /\ attempted = <<>>
       /\ Done
       /\ exitCode = 1
       /\ crashed = NoCrash
       /\ output # <<>>
       /\ output[Len(output)].line = "Error: API is not responding"

C1_Witness ==
  /\ Done
  /\ args.command = "create-multiple"
  /\ HealthFailed
  /\ \E k \in 1..Len(calls) :
       IsHealthCall(calls[k]) /\ ~calls[k].resp.fault /\
       calls[k].resp.status_code = 500

\* ------------------------------------------------------------------ C2
\* C2: in a finished create-multiple run whose batch holds only well-formed
\* items, every item was attempted, in batch order, and the success lines
\* printed are exactly those of the items whose create_vm round trip came
\* back with status 201, in the order of the batch.
WellFormedBatch ==
  \A j \in 1..Len(configs) :
    configs[j].type = "dict" /\ {"name", "template"} \subseteq DOMAIN configs[j].d

Items201 ==
  SelectSeq(calls, LAMBDA c : c.op = "create_vm" /\ ~c.resp.fault /\
                              c.resp.status_code = 201)

SuccessLines == SelectSeq(output, LAMBDA l : l.line = "VM created successfully")

C2_BatchIsolation ==
  (Done /\ args.command = "create-multiple" /\ HealthPassed /\ WellFormedBatch)
    => /\ attempted = [j \in 1..Len(configs) |-> j]
       /\ Len(SuccessLines) = Len(Items201)
       /\ \A m \in 1..Len(SuccessLines) :
            m <= Len(Items201) => SuccessLines[m].arg = Items201[m].arg.name

\* ------------------------------------------------------------------ C3
\* C3: a finished run has exit code 1 if its health check failed and exit
\* code 0 otherwise.
C3_ExitCodePolicy ==
  Done => exitCode = (IF HealthFailed THEN 1 ELSE 0)

\* ------------------------------------------------------------------ C4
\* C4: a finished create-multiple run whose config file is malformed (not
\* JSON, not an array of objects, an item without name or template) or
\* names an unknown template ended without an unhandled exception.
ConfigurationError ==
  \/ file.state \in {"invalid", "number", "dict"}
  \/ /\ file.state = "list"
     /\ \E j \in 1..Len(file.items) :
          \/ file.items[j].type # "dict"
          \/ ~({"name", "template"} \subseteq DOMAIN file.items[j].d)
          \/ file.items[j].d.template \notin DOMAIN VM_TEMPLATES

C4_ConfigErrorsDoNotCrash ==
  (Done /\ HealthPassed /\ ConfigurationError)
    => crashed \notin {"JSONDecodeError", "TypeError", "KeyError"}

\* ------------------------------------------------------------------ C5
\* C5: in the create and create-multiple commands a start_vm call exists
\* only for create with the start flag, is the call right after a create_vm
\* call that returned success on status 201, and is the last call of the run;
\* create-multiple never starts a VM; neither command ever issues delete_vm;
\* and a run whose start failed ends normally with the failure printed last.
C5_StartGating ==
  args.command \in {"create", "create-multiple"} =>
    /\ \A k \in CallsOf("start_vm") :
         /\ args.command = "create"
         /\ args.start
         /\ k > 1
         /\ calls[k - 1].op = "create_vm"
         /\ calls[k - 1].ok
         /\ calls[k - 1].resp.status_code = 201
         /\ k = Len(calls)
    /\ CallsOf("delete_vm") = {}
    /\ (Done /\ \E k \in CallsOf("start_vm") : ~calls[k].ok) =>
         /\ output[Len(output)].line = "Failed to start VM"
         /\ exitCode = 0

C5_Witness ==
  /\ Done
  /\ args.command = "create"
  /\ \E k \in CallsOf("start_vm") :
       ~calls[k].ok /\ ~calls[k].resp.fault /\ calls[k].resp.status_code = 500

\* ------------------------------------------------------------------ C6
\* list_vms returns a list, which has no keys; the other operations return
\* a dict.
HasKey(c, key) == c.op # "list_vms" /\ key \in DOMAIN c.result

RemoteRejectionShape(c) ==
  /\ ~c.ok
  /\ HasKey(c, "status_code")
  /\ HasKey(c, "error")
  /\ c.result.status_code = c.resp.status_code
  /\ c.result.error = c.resp.text

TransportFailureShape(c) ==
  /\ ~c.ok
  /\ ~HasKey(c, "status_code")
  /\ HasKey(c, "error")
  /\ c.result.error = c.resp.desc

\* C6: for all six client operations a non-2xx response returns ok = false
\* with the status and the body text, and a transport fault returns
\* ok = false with the fault description and no status.
C6_FailureClassification ==
  \A k \in 1..Len(calls) :
    calls[k].op \in ClientOps =>
      /\ NonSuccess2xx(calls[k].resp) => RemoteRejectionShape(calls[k])
      /\ calls[k].resp.fault => TransportFailureShape(calls[k])

\* ------------------------------------------------------------------ C7
\* C7: on every HTTP response, create_vm and create_snapshot succeed exactly
\* on status 201, start_vm and get_vm exactly on 200, delete_vm exactly on
\* 200 or 204.
SuccessStatuses(op) ==
  CASE op \in {"create_vm", "create_snapshot"} -> {201}
    [] op \in {"start_vm", "get_vm"} -> {200}
    [] op = "delete_vm" -> {200, 204}

C7_SuccessCodes ==
  \A k \in 1..Len(calls) :
    (calls[k].op \in ClientOps \ {"list_vms"} /\ ~calls[k].resp.fault) =>
      (calls[k].ok <=> calls[k].resp.status_code \in SuccessStatuses(calls[k].op))

\* ------------------------------------------------------------------ C8
\* C8: every attempted batch item whose template is no exact key of
\* VM_TEMPLATES caused no client call, and the output holds the line naming
\* the attempted template followed by the line listing every catalog key.
ListsAllTemplates(l) ==
  /\ l.line = "Available templates"
  /\ {l.arg[x] : x \in 1..Len(l.arg)} = DOMAIN VM_TEMPLATES

C8_UnknownTemplateRejected ==
  \A m \in 1..Len(attempted) :
    LET j == attempted[m] IN
    (j >= 1 /\ configs[j].d.template \notin DOMAIN VM_TEMPLATES) =>
      /\ \A k \in 1..Len(calls) : calls[k].item # j
      /\ \E n \in 1..(Len(output) - 1) :
           /\ output[n].line = "Unknown template type"
           /\ output[n].arg = configs[j].d.template
           /\ ListsAllTemplates(output[n + 1])

C8_Witness ==
  /\ Done
  /\ Len(attempted) = 2
  /\ configs[1].d.template = "Windows-11-Basic"
  /\ configs[2].d.template = "windows-11-basic"
  /\ Len(VmCalls) = 1

\* ------------------------------------------------------------------ C9
\* The (name, template, description) create_windows_vm was called with for
\* item j: the create command's arguments for j = 0, else the batch item.
InputOf(j) ==
  IF j = 0
  THEN [name |-> args.name, template |-> args.template,
        description |-> args.description]
  ELSE [name |-> configs[j].d.name, template |-> configs[j].d.template,
        description |-> IF "description" \in DOMAIN configs[j].d
                        THEN configs[j].d.description ELSE ""]

\* C9: every request sent to create_vm carries the name it was asked for,
\* the supplied description when that is non-empty and otherwise
\* "Windows VM - <template name>", and the catalog's fields unchanged; no
\* catalog entry has a name or description field.
C9_RequestNameAndDescription ==
  /\ \A t \in DOMAIN VM_TEMPLATES :
       DOMAIN VM_TEMPLATES[t] \cap {"name", "description"} = {}
  /\ \A k \in CallsOf("create_vm") :
       LET in == InputOf(calls[k].item)
           req == calls[k].arg
       IN  /\ req.name = in.name
           /\ req.description =
                (IF in.description \in {PyNone, ""}
                 THEN "Windows VM - " \o in.template
                 ELSE in.description)
           /\ \A f \in DOMAIN VM_TEMPLATES[in.template] :
                req[f] = VM_TEMPLATES[in.template][f]

C9_Witness ==
  /\ Done
  /\ args.command = "create"
  /\ args.description = ""
  /\ \E k \in CallsOf("create_vm") :
       calls[k].arg.description = "Windows VM - windows-server-database"

\* ----------------------------------------------------------------- C10
\* C10: no item (item 0 of the create command, or an element of the batch)
\* has more than one create_vm request in the history of calls.
C10_NoRetries ==
  \A j \in 0..Len(configs) :
    Cardinality({k \in CallsOf("create_vm") : calls[k].item = j}) <= 1

C10_Witness ==
  /\ Done
  /\ args.command = "create-multiple"
  /\ Len(attempted) >= 2
  /\ \E k \in CallsOf("create_vm") : calls[k].item = 1 /\ ~calls[k].ok
  /\ \E k \in CallsOf("create_vm") : calls[k].item = 2

====
